---- MODULE Spec2Model ----
(***************************************************************************)
(* A model of the Wikipedia search application (src/assets/wikipedia.py):  *)
(* the two substitution tables (normalize_text, url_encode), the response  *)
(* interpretation and heading styling of search_event_handler, the widget  *)
(* visibility flags and the disambiguation picker round trip.              *)
(*                                                                         *)
(* Text is a sequence of characters.  A character is a one-letter string;  *)
(* a character that cannot be written so is named by its code point        *)
(* ("u000a" is the line feed, "u0022" the double quote, "u2014" the em     *)
(* dash).  The literal pieces of an f-string message are kept as single    *)
(* tokens of the sequence.                                                 *)
(***************************************************************************)
EXTENDS Integers, Sequences, FiniteSets, TLC

VARIABLES
  event,          \* the last event the application handled
  search_bar,     \* text of the search textarea
  article_label,  \* text of the article label (child of article_container)
  title_label,    \* text of the title label (child of article_container)
  hidden,         \* the widgets that carry lv.obj.FLAG.HIDDEN
  pc,             \* position of search_event_handler: "idle", or "requesting" (in requests.get)
  request,        \* the titles= value of the request URL in flight, if one is
  response,       \* what requests.get / response.json() gave the last handler run, if any
  outcome,        \* the exit search_event_handler last took
  picker,         \* the running DisambiguationActivity (its intent extras), if one is
  fn_name,        \* the text function being called on its own
  fn_arg,         \* the argument of that call
  fn_ret          \* the result of that call, None before it returns

vars == <<event, search_bar, article_label, title_label, hidden, pc, request, response,
          outcome, picker, fn_name, fn_arg, fn_ret>>

app_vars == <<event, search_bar, article_label, title_label, hidden, pc, request, response,
              outcome, picker>>

NoValue == "NoValue"

\* a value that may be absent: None, or Some(x)
None == <<>>
Some(x) == <<x>>

(***************************************************************************)
(* Bounds of the model.                                                    *)
(***************************************************************************)
MaxEncodeLen == 3
MaxNormalizeLen == 2
MaxPieces == 5
MaxLinks == 2

(***************************************************************************)
(* Python string primitives, as the functions use them.                    *)
(***************************************************************************)
LF == "u000a"

\* str.strip() / str.rstrip() without arguments strip these
Whitespace == {" ", "u0009", "u000a", "u000b", "u000c", "u000d"}

RECURSIVE Replace(_, _, _)
\* text.replace(old, new) for a one-character old
Replace(text, old, new) ==
  IF text = <<>> THEN <<>>
  ELSE (IF Head(text) = old THEN new ELSE <<Head(text)>>) \o Replace(Tail(text), old, new)

\* c in text
Contains(text, c) == \E i \in 1..Len(text) : text[i] = c

RECURSIVE SplitFrom(_, _)
SplitFrom(text, cur) ==
  IF text = <<>> THEN <<cur>>
  ELSE IF Head(text) = LF THEN <<cur>> \o SplitFrom(Tail(text), <<>>)
  ELSE SplitFrom(Tail(text), Append(cur, Head(text)))

\* text.split('\n')
Split(text) == SplitFrom(text, <<>>)

RECURSIVE Join(_)
\* '\n'.join(lines)
Join(lines) ==
  IF lines = <<>> THEN <<>>
  ELSE IF Len(lines) = 1 THEN lines[1]
  ELSE lines[1] \o <<LF>> \o Join(Tail(lines))

RECURSIVE RStrip(_)
RStrip(s) ==
  IF s # <<>> /\ s[Len(s)] \in Whitespace THEN RStrip(SubSeq(s, 1, Len(s) - 1)) ELSE s

RECURSIVE LStrip(_)
LStrip(s) ==
  IF s # <<>> /\ Head(s) \in Whitespace THEN LStrip(Tail(s)) ELSE s

Strip(s) == RStrip(LStrip(s))

StartsWith(s, p) == Len(s) >= Len(p) /\ SubSeq(s, 1, Len(p)) = p

EndsWith(s, p) == Len(s) >= Len(p) /\ SubSeq(s, Len(s) - Len(p) + 1, Len(s)) = p

\* s[a:-b] for a, b > 0: empty when the two cuts meet or cross
Slice(s, a, b) == SubSeq(s, a + 1, Len(s) - b)

(***************************************************************************)
(* normalize_text                                                          *)
(***************************************************************************)
unicode_map ==
  <<
    <<"u2013", <<" ", "-", " ">>>>,
    <<"u2014", <<" ", "-", " ">>>>,
    <<"u2011", <<"-">>>>,
    <<"u2010", <<"-">>>>,
    <<"u2018", <<"'">>>>,
    <<"u2019", <<"'">>>>,
    <<"u201c", <<"u0022">>>>,
    <<"u201d", <<"u0022">>>>,
    <<"u2032", <<"'">>>>,
    <<"u2033", <<"u0022">>>>,
    <<"u00a0", <<" ">>>>,
    <<"u2009", <<" ">>>>,
    <<"u200a", <<" ">>>>,
    <<"u00e0", <<"a">>>>,
    <<"u00e1", <<"a">>>>,
    <<"u00e2", <<"a">>>>,
    <<"u00e3", <<"a">>>>,
    <<"u00e4", <<"a">>>>,
    <<"u00e5", <<"a">>>>,
    <<"u00e6", <<"a", "e">>>>,
    <<"u00e7", <<"c">>>>,
    <<"u00e8", <<"e">>>>,
    <<"u00e9", <<"e">>>>,
    <<"u00ea", <<"e">>>>,
    <<"u00eb", <<"e">>>>,
    <<"u00ec", <<"i">>>>,
    <<"u00ed", <<"i">>>>,
    <<"u00ee", <<"i">>>>,
    <<"u00ef", <<"i">>>>,
    <<"u00f0", <<"d">>>>,
    <<"u00f1", <<"n">>>>,
    <<"u00f2", <<"o">>>>,
    <<"u00f3", <<"o">>>>,
    <<"u00f4", <<"o">>>>,
    <<"u00f5", <<"o">>>>,
    <<"u00f6", <<"o">>>>,
    <<"u00f8", <<"o">>>>,
    <<"u00f9", <<"u">>>>,
    <<"u00fa", <<"u">>>>,
    <<"u00fb", <<"u">>>>,
    <<"u00fc", <<"u">>>>,
    <<"u00fd", <<"y">>>>,
    <<"u00fe", <<"t", "h">>>>,
    <<"u00ff", <<"y">>>>,
    <<"u0101", <<"a">>>>,
    <<"u0113", <<"e">>>>,
    <<"u012b", <<"i">>>>,
    <<"u014d", <<"o">>>>,
    <<"u016b", <<"u">>>>,
    <<"u00c0", <<"A">>>>,
    <<"u00c1", <<"A">>>>,
    <<"u00c2", <<"A">>>>,
    <<"u00c3", <<"A">>>>,
    <<"u00c4", <<"A">>>>,
    <<"u00c5", <<"A">>>>,
    <<"u00c6", <<"A", "E">>>>,
    <<"u00c7", <<"C">>>>,
    <<"u00c8", <<"E">>>>,
    <<"u00c9", <<"E">>>>,
    <<"u00ca", <<"E">>>>,
    <<"u00cb", <<"E">>>>,
    <<"u00cc", <<"I">>>>,
    <<"u00cd", <<"I">>>>,
    <<"u00ce", <<"I">>>>,
    <<"u00cf", <<"I">>>>,
    <<"u00d0", <<"D">>>>,
    <<"u00d1", <<"N">>>>,
    <<"u00d2", <<"O">>>>,
    <<"u00d3", <<"O">>>>,
    <<"u00d4", <<"O">>>>,
    <<"u00d5", <<"O">>>>,
    <<"u00d6", <<"O">>>>,
    <<"u00d8", <<"O">>>>,
    <<"u00d9", <<"U">>>>,
    <<"u00da", <<"U">>>>,
    <<"u00db", <<"U">>>>,
    <<"u00dc", <<"U">>>>,
    <<"u00dd", <<"Y">>>>,
    <<"u00de", <<"T", "H">>>>,
    <<"u0100", <<"A">>>>,
    <<"u0112", <<"E">>>>,
    <<"u012a", <<"I">>>>,
    <<"u014c", <<"O">>>>,
    <<"u016a", <<"U">>>>,
    <<"u2022", <<"*">>>>,
    <<"u2026", <<".", ".", ".">>>>,
    <<"u00b0", <<" ", "d", "e", "g">>>>,
    <<"u00d7", <<"x">>>>,
    <<"u00f7", <<"/">>>>,
    <<"u00a5", <<"y", "e", "n">>>>
  >>

\* the order in which the source lists the entries
SourceOrder == [i \in 1..Len(unicode_map) |-> i]

RECURSIVE NormalizeLoop(_, _, _, _)
\* the text after passes lo..hi of the for-loop, each pass one text.replace.  The run of
\* passes is cut in two halves done one after the other, and the first half is computed
\* (Len forces it) before the second starts, which keeps the evaluation shallow.
NormalizeLoop(text, order, lo, hi) ==
  IF lo > hi THEN text
  ELSE IF lo = hi
  THEN Replace(text, unicode_map[order[lo]][1], unicode_map[order[lo]][2])
  ELSE LET mid == (lo + hi) \div 2
           first == NormalizeLoop(text, order, lo, mid)
       IN  IF Len(first) >= 0 THEN NormalizeLoop(first, order, mid + 1, hi) ELSE first

\* the loop stopping one entry short of the end of the table
normalize_text_skip_last(order, text) == NormalizeLoop(text, order, 1, Len(order) - 1)

\* normalize_text with unicode_map.items() iterating in the given order
normalize_text_in(order, text) == NormalizeLoop(text, order, 1, Len(order))

normalize_text(text) == normalize_text_in(SourceOrder, text)

(***************************************************************************)
(* url_encode                                                              *)
(***************************************************************************)
encoding_map ==
  <<
    <<" ", <<"%", "2", "0">>>>,
    <<"!", <<"%", "2", "1">>>>,
    <<"u0022", <<"%", "2", "2">>>>,
    <<"#", <<"%", "2", "3">>>>,
    <<"$", <<"%", "2", "4">>>>,
    <<"%", <<"%", "2", "5">>>>,
    <<"&", <<"%", "2", "6">>>>,
    <<"'", <<"%", "2", "7">>>>,
    <<"(", <<"%", "2", "8">>>>,
    <<")", <<"%", "2", "9">>>>,
    <<"*", <<"%", "2", "A">>>>,
    <<"+", <<"%", "2", "B">>>>,
    <<",", <<"%", "2", "C">>>>,
    <<"/", <<"%", "2", "F">>>>,
    <<":", <<"%", "3", "A">>>>,
    <<";", <<"%", "3", "B">>>>,
    <<"=", <<"%", "3", "D">>>>,
    <<"?", <<"%", "3", "F">>>>,
    <<"@", <<"%", "4", "0">>>>,
    <<"[", <<"%", "5", "B">>>>,
    <<"u005c", <<"%", "5", "C">>>>,
    <<"]", <<"%", "5", "D">>>>,
    <<"^", <<"%", "5", "E">>>>,
    <<"u0060", <<"%", "6", "0">>>>,
    <<"{", <<"%", "7", "B">>>>,
    <<"|", <<"%", "7", "C">>>>,
    <<"}", <<"%", "7", "D">>>>,
    <<"~", <<"%", "7", "E">>>>,
    <<"<", <<"%", "3", "C">>>>,
    <<">", <<"%", "3", "E">>>>
  >>

RECURSIVE EncodeLoop(_, _)
\* the result after the first n passes of the for-loop
EncodeLoop(result, n) ==
  IF n = 0 THEN result
  ELSE IF encoding_map[n][1] # "%"
  THEN Replace(EncodeLoop(result, n - 1), encoding_map[n][1], encoding_map[n][2])
  ELSE EncodeLoop(result, n - 1)

RECURSIVE EncodeLoopNoSkip(_, _)
EncodeLoopNoSkip(result, n) ==
  IF n = 0 THEN result
  ELSE Replace(EncodeLoopNoSkip(result, n - 1), encoding_map[n][1], encoding_map[n][2])

\* url_encode without the '%' pre-pass: '%' is encoded at its place in the table
url_encode_table_order(text) == EncodeLoopNoSkip(text, Len(encoding_map))

url_encode(text) ==
  LET result == IF Contains(text, "%") THEN Replace(text, "%", <<"%", "2", "5">>) ELSE text
  IN  EncodeLoop(result, Len(encoding_map))

(***************************************************************************)
(* The heading styling of search_event_handler                             *)
(***************************************************************************)
HexDigits == <<"0", "1", "2", "3", "4", "5", "6", "7", "8", "9", "a", "b", "c", "d", "e", "f">>

\* f"{n:02x}" for a colour channel n in 0..255
Hex02(n) == <<HexDigits[(n \div 16) + 1], HexDigits[(n % 16) + 1]>>

\* f"{primary_color.red:02x}{primary_color.green:02x}{primary_color.blue:02x}"
color_hex_of(c) == Hex02(c.red) \o Hex02(c.green) \o Hex02(c.blue)

H3Open == <<"=", "=", "=", " ">>
H3Close == <<" ", "=", "=", "=">>
H2Open == <<"=", "=", " ">>
H2Close == <<" ", "=", "=">>

\* the loop body with the level-3 heading cut like a level-2 heading (line[3:-3])
style_line_short_cut(raw, color_hex) ==
  LET line == RStrip(raw) IN
  IF StartsWith(line, H3Open) /\ EndsWith(line, H3Close)
  THEN <<"#">> \o color_hex \o <<" ", "=", "=", "=", " ">> \o Slice(line, 3, 3)
         \o <<" ", "=", "=", "=", "#">>
  ELSE IF StartsWith(line, H2Open) /\ EndsWith(line, H2Close)
  THEN <<"#">> \o color_hex \o <<" ", "=", "=", " ">> \o Slice(line, 3, 3)
         \o <<" ", "=", "=", "#">>
  ELSE line

\* one pass of the for-loop body: the text appended to styled_lines
style_line(raw, color_hex) ==
  LET line == RStrip(raw) IN
  IF StartsWith(line, H3Open) /\ EndsWith(line, H3Close)
  THEN <<"#">> \o color_hex \o <<" ", "=", "=", "=", " ">> \o Slice(line, 4, 4)
         \o <<" ", "=", "=", "=", "#">>
  ELSE IF StartsWith(line, H2Open) /\ EndsWith(line, H2Close)
  THEN <<"#">> \o color_hex \o <<" ", "=", "=", " ">> \o Slice(line, 3, 3)
         \o <<" ", "=", "=", "#">>
  ELSE line

RECURSIVE StyleLoop(_, _, _)
StyleLoop(lines, styled_lines, color_hex) ==
  IF lines = <<>> THEN styled_lines
  ELSE StyleLoop(Tail(lines), Append(styled_lines, style_line(Head(lines), color_hex)),
                 color_hex)

style_headings(extract, color_hex) == Strip(Join(StyleLoop(Split(extract), <<>>, color_hex)))

(***************************************************************************)
(* Finite sets of texts                                                    *)
(***************************************************************************)
SeqsUpTo(S, n) == UNION {[1..k -> S] : k \in 0..n}

RECURSIVE Flatten(_)
Flatten(ss) == IF ss = <<>> THEN <<>> ELSE Head(ss) \o Flatten(Tail(ss))


(***************************************************************************)
(* The search screen: WikipediaApp and DisambiguationActivity              *)
(***************************************************************************)
Widgets == {"search_bar", "search_btn", "keyboard", "article_container", "back_btn"}

\* widget.add_flag(lv.obj.FLAG.HIDDEN) / widget.remove_flag(lv.obj.FLAG.HIDDEN)
add_flag(h, w) == h \cup {w}
remove_flag(h, w) == h \ {w}

\* the flags onCreate leaves: the widgets are created without the flag, then
\* keyboard.remove_flag, article_container.add_flag, back_btn.add_flag
onCreate_flags ==
  add_flag(add_flag(remove_flag({}, "keyboard"), "article_container"), "back_btn")

\* show_search_screen that leaves the back button as it was
show_search_screen_keeps_back(h) ==
  add_flag(remove_flag(remove_flag(remove_flag(h, "search_bar"), "search_btn"), "keyboard"),
           "article_container")

show_search_screen(h) ==
  add_flag(add_flag(remove_flag(remove_flag(remove_flag(h, "search_bar"), "search_btn"),
                                "keyboard"),
                    "article_container"),
           "back_btn")

\* show_reading_screen that leaves the keyboard as it was
show_reading_screen_keeps_keyboard(h) ==
  remove_flag(remove_flag(add_flag(add_flag(h, "search_bar"), "search_btn"),
                          "article_container"),
              "back_btn")

show_reading_screen(h) ==
  remove_flag(remove_flag(add_flag(add_flag(add_flag(h, "search_bar"), "search_btn"),
                                   "keyboard"),
                          "article_container"),
              "back_btn")

\* the f-string messages set on article_label
SearchingMsg(query) == <<"Searching for '">> \o query \o <<"'...">>
NotFoundMsg(query) == <<"Article '">> \o query \o <<"' not found.">>
DisambiguationEmptyMsg(query) ==
  <<"'">> \o query \o <<"' is a disambiguation page, but no articles were found.">>
ErrorMsg(e) == <<"Error: ">> \o e

NoExtract == <<"NO EXTRACT FOUND">>

\* values of lv.theme_get_color_primary(None)
ThemeColors == {[red |-> 255, green |-> 0, blue |-> 0], [red |-> 33, green |-> 150, blue |-> 243]}

\* a JSON object is a function from its keys; obj.get(key, default)
EmptyObj == <<>>
Has(obj, key) == key \in DOMAIN obj
Get(obj, key, default) == IF Has(obj, key) THEN obj[key] ELSE default

(***************************************************************************)
(* The responses the requests layer can give to one request.               *)
(***************************************************************************)
TitleA == <<"P", "a", "n">>
TitleB == <<"P", "a", "n", " ", "(", "g", "o", "d", ")">>
TitleCategory == <<"C", "a", "t", ":", "P">>

\* entries of a page's links: other namespaces, empty and missing titles, a missing ns
LinkKinds ==
  { ("ns" :> 0) @@ ("title" :> TitleA),
    ("ns" :> 0) @@ ("title" :> TitleB),
    ("ns" :> 14) @@ ("title" :> TitleCategory),
    ("ns" :> 0) @@ ("title" :> <<>>),
    ("ns" :> 0),
    ("title" :> TitleA) }

ExtractPlain == <<"c", "a", "f", "u00e9", " ", "u2014", " ">>
ExtractHeadings ==
  <<"P", "a", "n", LF, "=", "=", " ", "A", " ", "=", "=", " ", LF,
    "=", "=", "=", " ", "B", " ", "=", "=", "=">>

Optional(key, values) == {EmptyObj} \cup {key :> v : v \in values}

DisambiguationProps ==
  { ("disambiguation" :> <<>>),
    ("disambiguation" :> <<>>) @@ ("wikibase_item" :> <<"Q", "1">>) }

OtherProps == {EmptyObj, ("wikibase_item" :> <<"Q", "1">>)}

\* pages flagged as disambiguation pages, with every list of links up to MaxLinks
DisambiguationPages ==
  { t @@ ("extract" :> ExtractPlain) @@ ("pageprops" :> p) @@ l :
      t \in Optional("title", {TitleA}),
      p \in DisambiguationProps,
      l \in Optional("links", SeqsUpTo(LinkKinds, MaxLinks)) }

\* pages without the flag
PlainPages ==
  { t @@ e @@ p @@ l :
      t \in Optional("title", {TitleB}),
      e \in Optional("extract", {ExtractPlain, ExtractHeadings}),
      p \in Optional("pageprops", OtherProps),
      l \in Optional("links", { <<("ns" :> 0) @@ ("title" :> TitleA)>> }) }

Pages == DisambiguationPages \cup PlainPages

PageIds == {"-1", "736"}

\* query.pages in iteration order: no entry, one entry, or a second entry after the first
PagesMappings ==
  {<<>>}
    \cup {<< <<id, page>> >> : id \in PageIds, page \in Pages}
    \cup {<< <<id, page>>, <<"9", ("title" :> TitleB)>> >> :
            id \in PageIds,
            page \in {EmptyObj, ("title" :> TitleA) @@ ("pageprops" :> ("disambiguation" :> <<>>))} }

Responses ==
  { [kind |-> "raised", error |-> <<"OSError: -2">>],
    [kind |-> "not_json", error |-> <<"syntax error in JSON">>],
    [kind |-> "json", data |-> EmptyObj],
    [kind |-> "json", data |-> ("query" :> EmptyObj)] }
    \cup {[kind |-> "json", data |-> ("query" :> ("pages" :> ps))] : ps \in PagesMappings}

(***************************************************************************)
(* search_event_handler                                                    *)
(***************************************************************************)
RECURSIVE collect_titles_any_ns(_, _)
\* the loop without the test of the namespace
collect_titles_any_ns(links, titles) ==
  IF links = <<>> THEN titles
  ELSE LET link == Head(links)
           keep == Has(link, "title") /\ link["title"] # <<>>
       IN  collect_titles_any_ns(Tail(links),
                                 IF keep THEN Append(titles, link["title"]) ELSE titles)

RECURSIVE collect_titles(_, _)
\* the for-loop over links that fills titles
collect_titles(links, titles) ==
  IF links = <<>> THEN titles
  ELSE LET link == Head(links)
           keep == Has(link, "ns") /\ link["ns"] = 0
                     /\ Has(link, "title") /\ link["title"] # <<>>
       IN  collect_titles(Tail(links), IF keep THEN Append(titles, link["title"]) ELSE titles)

\* the branch order with the page-id test made after the disambiguation test
select_branch_flag_first(page_id, page) ==
  IF Has(page, "pageprops") /\ Has(page["pageprops"], "disambiguation") THEN "Disambiguation"
  ELSE IF page_id = "-1" THEN "NotFound"
  ELSE "Article"

\* which of the three branches the handler takes for the first page
select_branch(page_id, page) ==
  IF page_id = "-1" THEN "NotFound"
  ELSE IF Has(page, "pageprops") /\ Has(page["pageprops"], "disambiguation") THEN "Disambiguation"
  ELSE "Article"

\* the text of the exception the try block raises before a page is chosen, if it raises
early_exception(resp) ==
  IF resp.kind \in {"raised", "not_json"} THEN Some(resp.error)
  ELSE IF ~Has(resp.data, "query") THEN Some(<<"'query'">>)
  ELSE IF ~Has(resp.data["query"], "pages") THEN Some(<<"'pages'">>)
  ELSE IF resp.data["query"]["pages"] = <<>> THEN Some(<<>>)
  ELSE None

\* the end of the disambiguation branch, from "if not titles"
open_picker(query, titles) ==
  IF titles = <<>>
  THEN [outcome |-> "DisambiguationEmpty", article_label |-> Some(DisambiguationEmptyMsg(query)),
        title_label |-> None, reading |-> FALSE, popup |-> None]
  ELSE [outcome |-> "Disambiguation", article_label |-> None, title_label |-> None,
        reading |-> FALSE, popup |-> Some([query |-> query, titles |-> titles])]

\* what the handler does with the response: the exit it takes, the texts it sets (None:
\* not set), whether it calls show_reading_screen, the extras of the intent it starts
handle(query, resp, primary_color) ==
  IF early_exception(resp) # None
  THEN [outcome |-> IF resp.kind = "raised" THEN "NetworkFailure" ELSE "ParseFailure",
        article_label |-> Some(ErrorMsg(early_exception(resp)[1])),
        title_label |-> None, reading |-> FALSE, popup |-> None]
  ELSE
    LET pages == resp.data["query"]["pages"]
        page_id == pages[1][1]
        page == pages[1][2]
        branch == select_branch(page_id, page)
    IN  IF branch = "NotFound"
        THEN [outcome |-> "NotFound", article_label |-> Some(NotFoundMsg(query)),
              title_label |-> None, reading |-> FALSE, popup |-> None]
        ELSE IF branch = "Disambiguation"
        THEN open_picker(query, collect_titles(Get(page, "links", <<>>), <<>>))
        ELSE [outcome |-> "Article",
              article_label |->
                Some(style_headings(normalize_text(Get(page, "extract", NoExtract)),
                                    color_hex_of(primary_color))),
              title_label |-> Some(Get(page, "title", query)),
              reading |-> TRUE, popup |-> None]

\* search_event_handler from its entry to the blocking requests.get
begin_search(query) ==
  IF query = <<>>
  THEN /\ outcome' = "Ignored"
       /\ UNCHANGED <<article_label, pc, request>>
  ELSE /\ article_label' = SearchingMsg(query)
       /\ request' = Some(url_encode(query))
       /\ pc' = "requesting"
       /\ outcome' = NoValue

\* the callback that clears the search bar when no title was selected
disambiguation_result_callback_clearing(result) ==
  IF result.result_code = TRUE /\ result.data # EmptyObj
       /\ Has(result.data, "selected_title") /\ result.data["selected_title"] # <<>>
  THEN /\ search_bar' = result.data["selected_title"]
       /\ begin_search(result.data["selected_title"])
  ELSE /\ search_bar' = <<>>
       /\ outcome' = NoValue
       /\ UNCHANGED <<article_label, pc, request>>

\* the callback that starts the search without setting the search bar
disambiguation_result_callback_no_set(result) ==
  IF result.result_code = TRUE /\ result.data # EmptyObj
       /\ Has(result.data, "selected_title") /\ result.data["selected_title"] # <<>>
  THEN /\ search_bar' = search_bar
       /\ begin_search(search_bar)
  ELSE /\ outcome' = NoValue
       /\ UNCHANGED <<search_bar, article_label, pc, request>>

disambiguation_result_callback(result) ==
  IF result.result_code = TRUE /\ result.data # EmptyObj
       /\ Has(result.data, "selected_title") /\ result.data["selected_title"] # <<>>
  THEN /\ search_bar' = result.data["selected_title"]
       /\ begin_search(result.data["selected_title"])
  ELSE /\ outcome' = NoValue
       /\ UNCHANGED <<search_bar, article_label, pc, request>>

\* the titles DisambiguationActivity.onCreate makes a button for
picker_buttons(titles) == {titles[i] : i \in {j \in 1..Len(titles) : titles[j] # <<>>}}

(***************************************************************************)
(* The events                                                              *)
(***************************************************************************)
TypedQueries == {<<>>, <<"P", "a", "n">>, <<"1", "0", "0", "%", " ", "(", "x", ")">>}

\* the screen of WikipediaApp takes input: no handler is running and no picker covers it
ScreenActive == pc = "idle" /\ picker = None

Init ==
  /\ event = "onCreate"
  /\ search_bar = <<>>
  /\ article_label = <<>>
  /\ title_label = <<>>
  /\ hidden = onCreate_flags
  /\ pc = "idle"
  /\ request = None
  /\ response = None
  /\ outcome = NoValue
  /\ picker = None
  /\ fn_name = NoValue
  /\ fn_arg = NoValue
  /\ fn_ret = None

\* a widget takes input when its screen is active and it is not hidden; the picker's
\* buttons take input while the picker runs
CanType == ScreenActive /\ "search_bar" \notin hidden /\ "keyboard" \notin hidden
CanSearch == ScreenActive /\ "search_btn" \notin hidden
CanGoBack == ScreenActive /\ "back_btn" \notin hidden
CanSelect == picker # None /\ picker_buttons(picker[1].titles) # {}
CanCancel == picker # None

\* the user edits the search bar with the keyboard
type_query ==
  /\ CanType
  /\ \E q \in TypedQueries : search_bar' = q
  /\ event' = "type"
  /\ response' = None
  /\ outcome' = NoValue
  /\ UNCHANGED <<article_label, title_label, hidden, pc, request, picker,
                 fn_name, fn_arg, fn_ret>>

\* the Go button is clicked: search_event_handler up to requests.get
search_clicked ==
  /\ CanSearch
  /\ begin_search(search_bar)
  /\ event' = "search"
  /\ response' = None
  /\ UNCHANGED <<search_bar, title_label, hidden, picker, fn_name, fn_arg, fn_ret>>

\* requests.get returns or raises, and search_event_handler runs to its end
response_handled ==
  /\ pc = "requesting"
  /\ \E resp \in Responses, primary_color \in ThemeColors :
       LET r == handle(search_bar, resp, primary_color) IN
       /\ response' = Some(resp)
       /\ outcome' = r.outcome
       /\ article_label' = IF r.article_label = None THEN article_label ELSE r.article_label[1]
       /\ title_label' = IF r.title_label = None THEN title_label ELSE r.title_label[1]
       /\ hidden' = IF r.reading THEN show_reading_screen(hidden) ELSE hidden
       /\ picker' = r.popup
  /\ pc' = "idle"
  /\ request' = None
  /\ event' = "response"
  /\ UNCHANGED <<search_bar, fn_name, fn_arg, fn_ret>>

\* the floating back button is clicked
back_button_handler ==
  /\ CanGoBack
  /\ hidden' = show_search_screen(hidden)
  /\ event' = "back"
  /\ response' = None
  /\ outcome' = NoValue
  /\ UNCHANGED <<search_bar, article_label, title_label, pc, request, picker,
                 fn_name, fn_arg, fn_ret>>

\* a title button of the picker is clicked: select_title, finish, the result callback
select_title ==
  /\ CanSelect
  /\ \E title \in picker_buttons(picker[1].titles) :
       disambiguation_result_callback(
         [result_code |-> TRUE, data |-> ("selected_title" :> title)])
  /\ picker' = None
  /\ event' = "select"
  /\ response' = None
  /\ UNCHANGED <<title_label, hidden, fn_name, fn_arg, fn_ret>>

\* the Cancel button of the picker is clicked: finish with no result set
cancel_clicked ==
  /\ CanCancel
  /\ disambiguation_result_callback([result_code |-> FALSE, data |-> EmptyObj])
  /\ picker' = None
  /\ event' = "cancel"
  /\ response' = None
  /\ UNCHANGED <<title_label, hidden, fn_name, fn_arg, fn_ret>>

Next ==
  \/ type_query
  \/ search_clicked
  \/ response_handled
  \/ back_button_handler
  \/ select_title
  \/ cancel_clicked

Spec == Init /\ [][Next]_vars

(***************************************************************************)
(* Calling the three text functions on bounded inputs.                     *)
(***************************************************************************)
\* the application state while only a text function runs: the screen as onCreate leaves it
AppAtRest ==
  /\ event = "onCreate"
  /\ search_bar = <<>>
  /\ article_label = <<>>
  /\ title_label = <<>>
  /\ hidden = onCreate_flags
  /\ pc = "idle"
  /\ request = None
  /\ response = None
  /\ outcome = NoValue
  /\ picker = None

EncodeAlphabet == {"%", " ", "(", "2", "5", "a"}

EncodeExample ==
  <<"1", "0", "0", "%", " ", "s", "u", "r", "e", " ", "(", "y", "e", "s", ")">>

EncodeInputs == SeqsUpTo(EncodeAlphabet, MaxEncodeLen) \cup {EncodeExample}

InitEncode ==
  /\ AppAtRest
  /\ fn_name = "url_encode"
  /\ fn_arg \in EncodeInputs
  /\ fn_ret = None

call_url_encode ==
  /\ fn_name = "url_encode"
  /\ fn_ret = None
  /\ fn_ret' = Some(url_encode(fn_arg))
  /\ UNCHANGED <<app_vars, fn_name, fn_arg>>

SpecEncode == InitEncode /\ [][call_url_encode]_vars

\* "u4e2d" is a code point the table does not list
NormalizeAlphabet == {"a", "u00e9", "u2026", "u2022", "u4e2d"}

NormalizeExample ==
  <<"c", "a", "f", "u00e9", " ", "u2014", " ", "n", "a", "u00ef", "v", "e">>

NormalizeInputs == SeqsUpTo(NormalizeAlphabet, MaxNormalizeLen) \cup {NormalizeExample}

TableSize == Len(unicode_map)

\* the source order rotated by k places
Rotated(k) == [i \in 1..TableSize |-> ((i - 1 + k) % TableSize) + 1]

Reversed(order) == [i \in 1..Len(order) |-> order[Len(order) + 1 - i]]

\* iteration orders of unicode_map.items(): every rotation of the source order, and each reversed
IterationOrders == {Rotated(k) : k \in 0..(TableSize - 1)}
                     \cup {Reversed(Rotated(k)) : k \in 0..(TableSize - 1)}

InitNormalize ==
  /\ AppAtRest
  /\ fn_name = "normalize_text"
  /\ fn_arg \in [text : NormalizeInputs, order : IterationOrders]
  /\ fn_ret = None

call_normalize_text ==
  /\ fn_name = "normalize_text"
  /\ fn_ret = None
  /\ fn_ret' = Some(normalize_text_in(fn_arg.order, fn_arg.text))
  /\ UNCHANGED <<app_vars, fn_name, fn_arg>>

SpecNormalize == InitNormalize /\ [][call_normalize_text]_vars

StylePieces == {<<"=">>, <<"=", "=">>, <<"=", "=", "=">>, <<" ">>, <<"a">>, <<LF>>}

StyleExample ==
  <<"=", "=", " ", "A", " ", "=", "=", LF, "t", "e", "x", "t", LF,
    "=", "=", "=", " ", "B", " ", "=", "=", "=">>

StyleInputs == {Flatten(ps) : ps \in SeqsUpTo(StylePieces, MaxPieces)} \cup {StyleExample}

InitStyle ==
  /\ AppAtRest
  /\ fn_name = "style_headings"
  /\ fn_arg \in [extract : StyleInputs, color : ThemeColors]
  /\ fn_ret = None

call_style_headings ==
  /\ fn_name = "style_headings"
  /\ fn_ret = None
  /\ fn_ret' = Some(style_headings(fn_arg.extract, color_hex_of(fn_arg.color)))
  /\ UNCHANGED <<app_vars, fn_name, fn_arg>>

SpecStyle == InitStyle /\ [][call_style_headings]_vars

(***************************************************************************)
(* C8: url_encode is the concatenation of the per-character encodings      *)
(***************************************************************************)
\* the encoding of one character: its table entry when it has one, else the character
EncodingOf(c) ==
  IF \E k \in 1..Len(encoding_map) : encoding_map[k][1] = c
  THEN encoding_map[CHOOSE k \in 1..Len(encoding_map) : encoding_map[k][1] = c][2]
  ELSE <<c>>

PerCharEncoding(text) == Flatten([i \in 1..Len(text) |-> EncodingOf(text[i])])

EncodeExampleResult ==
  <<"1", "0", "0", "%", "2", "5", "%", "2", "0", "s", "u", "r", "e", "%", "2", "0",
    "%", "2", "8", "y", "e", "s", "%", "2", "9">>

\* C8: for every input, url_encode returns the concatenation of the per-character
\* encodings of the input ('%' included, and no '%' that encoding produced is encoded
\* again), and url_encode("100% sure (yes)") is "100%25%20sure%20%28yes%29".
C8_UrlEncodePerCharacter ==
  fn_ret # None =>
    /\ fn_ret[1] = PerCharEncoding(fn_arg)
    /\ fn_arg = EncodeExample => fn_ret[1] = EncodeExampleResult

\* an input with '%' next to another table character has been encoded
C8_Witness ==
  /\ fn_name = "url_encode"
  /\ fn_arg = <<"%", " ", "(">>
  /\ fn_ret = Some(<<"%", "2", "5", "%", "2", "0", "%", "2", "8">>)

(***************************************************************************)
(* C9: normalize_text is idempotent and independent of the table order     *)
(***************************************************************************)
TableKeys == {unicode_map[k][1] : k \in 1..Len(unicode_map)}

ReplacementOf(c) ==
  IF c \in TableKeys
  THEN unicode_map[CHOOSE k \in 1..Len(unicode_map) : unicode_map[k][1] = c][2]
  ELSE <<c>>

PerCharNormal(text) == Flatten([i \in 1..Len(text) |-> ReplacementOf(text[i])])

\* C9: normalize_text applied to its own output changes nothing, the result is the
\* same in whatever order the table entries are applied, no output holds a code point
\* that is a key of the table, and characters outside the table are left as they are.
C9_NormalizeIdempotentAnyOrder ==
  fn_ret # None =>
    /\ normalize_text_in(fn_arg.order, fn_ret[1]) = fn_ret[1]
    /\ fn_ret[1] = normalize_text(fn_arg.text)
    /\ \A i \in 1..Len(fn_ret[1]) : fn_ret[1][i] \notin TableKeys
    /\ fn_ret[1] = PerCharNormal(fn_arg.text)

\* a text with two table characters and one foreign character, normalized in reverse order
C9_Witness ==
  /\ fn_name = "normalize_text"
  /\ fn_arg.order = Reversed(SourceOrder)
  /\ fn_arg.text = <<"u2026", "u4e2d">>
  /\ fn_ret = Some(<<".", ".", ".", "u4e2d">>)

(***************************************************************************)
(* C7: the heading styling against its per-line reference                  *)
(***************************************************************************)
\* the positions of the line feeds of text, with 0 before and Len + 1 after
Breaks(text) == {0, Len(text) + 1} \cup {i \in 1..Len(text) : text[i] = LF}

\* the k-th smallest element of a finite set of naturals
Nth(S, k) == CHOOSE x \in S : Cardinality({y \in S : y < x}) = k - 1

RefLines(text) ==
  [k \in 1..(Cardinality(Breaks(text)) - 1) |->
     SubSeq(text, Nth(Breaks(text), k) + 1, Nth(Breaks(text), k + 1) - 1)]

\* the text without the white space at its end
RefRTrim(s) ==
  LET keep == {i \in 1..Len(s) : s[i] \notin Whitespace}
  IN  IF keep = {} THEN <<>> ELSE SubSeq(s, 1, CHOOSE i \in keep : \A j \in keep : j <= i)

RefTrim(s) ==
  LET keep == {i \in 1..Len(s) : s[i] \notin Whitespace}
  IN  IF keep = {} THEN <<>>
      ELSE SubSeq(s, CHOOSE i \in keep : \A j \in keep : i <= j,
                     CHOOSE i \in keep : \A j \in keep : j <= i)

\* the text without its first n and last n characters (empty when it has fewer than 2n)
RefInner(s, n) == [i \in 1..(IF Len(s) > 2 * n THEN Len(s) - 2 * n ELSE 0) |-> s[i + n]]

RefStyleLine(raw, color) ==
  LET line == RefRTrim(raw)
      n == Len(line)
      isH3 == n >= 4 /\ SubSeq(line, 1, 4) = <<"=", "=", "=", " ">>
                     /\ SubSeq(line, n - 3, n) = <<" ", "=", "=", "=">>
      isH2 == n >= 3 /\ SubSeq(line, 1, 3) = <<"=", "=", " ">>
                     /\ SubSeq(line, n - 2, n) = <<" ", "=", "=">>
  IN  IF isH3
      THEN <<"#">> \o color \o <<" ", "=", "=", "=", " ">> \o RefInner(line, 4)
             \o <<" ", "=", "=", "=", "#">>
      ELSE IF isH2
      THEN <<"#">> \o color \o <<" ", "=", "=", " ">> \o RefInner(line, 3)
             \o <<" ", "=", "=", "#">>
      ELSE line

RECURSIVE RefJoin(_, _)
RefJoin(ls, k) ==
  IF k > Len(ls) THEN <<>>
  ELSE ls[k] \o (IF k < Len(ls) THEN <<LF>> ELSE <<>>) \o RefJoin(ls, k + 1)

RefStyle(text, color) ==
  LET ls == RefLines(text)
  IN  RefTrim(RefJoin([k \in 1..Len(ls) |-> RefStyleLine(ls[k], color)], 1))

StyleExampleResult ==
  <<"#", "f", "f", "0", "0", "0", "0", " ", "=", "=", " ", "A", " ", "=", "=", "#", LF,
    "t", "e", "x", "t", LF,
    "#", "f", "f", "0", "0", "0", "0", " ", "=", "=", "=", " ", "B", " ", "=", "=", "=", "#">>

\* C7: for every extract and accent colour the styling equals the per-line reference
\* (split on line breaks, strip each line's trailing white space, rewrite "=== t ===" and
\* "== t ==" lines, join, trim); the degenerate lines "=== ===" and "== ==" give an empty
\* heading text, and the example of the specification gives its stated result.
C7_StyleMatchesReference ==
  fn_ret # None =>
    LET color == color_hex_of(fn_arg.color) IN
    /\ fn_ret[1] = RefStyle(fn_arg.extract, color)
    /\ fn_arg.extract = <<"=", "=", "=", " ", "=", "=", "=">>
         => fn_ret[1] = <<"#">> \o color \o <<" ", "=", "=", "=", " ", " ", "=", "=", "=", "#">>
    /\ fn_arg.extract = <<"=", "=", " ", "=", "=">>
         => fn_ret[1] = <<"#">> \o color \o <<" ", "=", "=", " ", " ", "=", "=", "#">>
    /\ (fn_arg.extract = StyleExample /\ color = <<"f", "f", "0", "0", "0", "0">>)
         => fn_ret[1] = StyleExampleResult

\* the degenerate level-3 line "=== ===" has been styled
C7_Witness ==
  /\ fn_name = "style_headings"
  /\ fn_arg.extract = <<"=", "=", "=", " ", "=", "=", "=">>
  /\ fn_ret # None
  /\ Len(fn_ret[1]) = 17

(***************************************************************************)
(* The claims about the search screen                                      *)
(***************************************************************************)
\* the two visibility configurations, as the set of hidden widgets
SearchConfig == {"article_container", "back_btn"}
ReadingConfig == {"search_bar", "search_btn", "keyboard"}

InSearching == picker = None /\ hidden = SearchConfig
InReading == picker = None /\ hidden = ReadingConfig
InAwaitingSelection == picker # None /\ hidden = SearchConfig

ErrorOutcomes == {"NotFound", "DisambiguationEmpty", "NetworkFailure", "ParseFailure"}

\* the last handler run got a response whose query.pages holds at least one entry
GotPages ==
  /\ event = "response"
  /\ response # None
  /\ response[1].kind = "json"
  /\ "query" \in DOMAIN response[1].data
  /\ "pages" \in DOMAIN response[1].data["query"]
  /\ Len(response[1].data["query"]["pages"]) >= 1

FirstPageId == response[1].data["query"]["pages"][1][1]
FirstPage == response[1].data["query"]["pages"][1][2]

Flagged(page) ==
  "pageprops" \in DOMAIN page /\ "disambiguation" \in DOMAIN page["pageprops"]

\* the observable effect of each outcome
NotFoundShown == article_label = NotFoundMsg(search_bar)
DisambiguationTaken ==
  picker # None \/ article_label = DisambiguationEmptyMsg(search_bar)
ArticleShown == hidden = ReadingConfig

\* C1: for every response whose query.pages has at least one entry the handler selects
\* exactly one of not-found, disambiguation, direct-article: not-found when the first
\* page-id is "-1" whatever the page holds, else disambiguation when the page has
\* pageprops with the key "disambiguation", else direct-article.
C1_ExactlyOneOutcome ==
  GotPages =>
    /\ Cardinality({b \in {"n", "d", "a"} :
                      \/ b = "n" /\ NotFoundShown
                      \/ b = "d" /\ DisambiguationTaken
                      \/ b = "a" /\ ArticleShown}) = 1
    /\ IF FirstPageId = "-1"
       THEN NotFoundShown /\ outcome = "NotFound"
       ELSE IF Flagged(FirstPage)
       THEN DisambiguationTaken /\ outcome \in {"Disambiguation", "DisambiguationEmpty"}
       ELSE ArticleShown /\ outcome = "Article"

\* a response whose first page-id is "-1" and whose page carries the disambiguation
\* flag and links has been answered with not-found
C1_Witness ==
  /\ GotPages
  /\ FirstPageId = "-1"
  /\ Flagged(FirstPage)
  /\ "links" \in DOMAIN FirstPage
  /\ outcome = "NotFound"

\* the transitions the screen may make in one step
C2_Transition ==
  \/ /\ InSearching /\ InAwaitingSelection'
     /\ event' = "response" /\ outcome' = "Disambiguation"
  \/ /\ InSearching /\ InReading'
     /\ event' = "response" /\ outcome' = "Article"
  \/ /\ InSearching /\ InSearching'
     /\ event' \in {"type", "search", "response"}
     /\ event' = "response" => outcome' \in ErrorOutcomes
  \/ /\ InAwaitingSelection /\ InSearching'
     /\ event' \in {"select", "cancel"}
  \/ /\ InReading /\ InSearching'
     /\ event' = "back"

\* every state has a way out: the search screen takes a query and a click of Go (or its
\* handler is waiting in requests.get), the picker takes a choice and Cancel, the
\* reading screen takes the back button
C2_NotTerminal ==
  /\ InSearching => (pc = "requesting" \/ (CanType /\ CanSearch))
  /\ InAwaitingSelection => (CanSelect /\ CanCancel)
  /\ InReading => CanGoBack

C2_ExactlyOneState ==
  Cardinality({s \in {"S", "A", "R"} :
                 \/ s = "S" /\ InSearching
                 \/ s = "A" /\ InAwaitingSelection
                 \/ s = "R" /\ InReading}) = 1

\* C2: the screen is always in exactly one of Searching, AwaitingSelection, Reading,
\* starting in Searching; its only transitions are Searching to AwaitingSelection on a
\* Disambiguation outcome, Searching to Reading on an Article outcome, Searching to
\* Searching on NotFound, DisambiguationEmpty or a failure, AwaitingSelection to
\* Searching on select or cancel, Reading to Searching on the back action; no state is
\* terminal.
C2_ScreenStateMachine ==
  /\ InSearching
  /\ [](C2_ExactlyOneState /\ C2_NotTerminal)
  /\ [][C2_Transition]_vars

\* an article is being read that was reached through a title of the picker
C2_Witness ==
  /\ InReading
  /\ event = "response"
  /\ outcome = "Article"
  /\ search_bar = TitleB

\* the message the handler sets for an error outcome
ErrorTextShown ==
  \/ outcome = "NotFound" /\ article_label = NotFoundMsg(search_bar)
  \/ outcome = "DisambiguationEmpty" /\ article_label = DisambiguationEmptyMsg(search_bar)
  \/ outcome \in {"NetworkFailure", "ParseFailure"} /\ Head(article_label) = "Error: "

\* C3: every search that ends in NotFound, DisambiguationEmpty, NetworkFailure or
\* ParseFailure leaves the screen in Searching with the error text set on the article
\* display area, and that area is visible at that moment.
C3_ErrorMessageVisible ==
  (event = "response" /\ outcome \in ErrorOutcomes) =>
    /\ InSearching
    /\ ErrorTextShown
    /\ "article_container" \notin hidden

\* C4: when a title t is selected in the picker, the result callback sets the search bar
\* to t and issues exactly one new search whose query is t, and t is one of the candidate
\* titles the picker was opened with.
C4_SelectResubmitsTitle ==
  [][event' = "select" =>
       /\ picker # None
       /\ \E i \in 1..Len(picker[1].titles) : picker[1].titles[i] = search_bar'
       /\ request = None /\ pc = "idle"
       /\ request' = Some(PerCharEncoding(search_bar'))
       /\ pc' = "requesting"
       /\ article_label' = SearchingMsg(search_bar')
       /\ picker' = None]_vars

\* the second candidate of a picker was selected and its search is in flight
C4_Witness ==
  /\ event = "select"
  /\ search_bar = TitleB
  /\ pc = "requesting"
  /\ request = Some(<<"P", "a", "n", "%", "2", "0", "%", "2", "8", "g", "o", "d", "%", "2", "9">>)

\* C5: cancelling the picker returns the screen to Searching and changes nothing else:
\* the query, the title text, the article text and the widget visibility are as they
\* were when the picker was opened, and no search is issued.
C5_CancelChangesNothing ==
  [][event' = "cancel" =>
       /\ InAwaitingSelection /\ InSearching'
       /\ UNCHANGED <<search_bar, title_label, article_label, hidden, pc, request>>
       /\ search_bar' = picker[1].query
       /\ article_label' = SearchingMsg(picker[1].query)
       /\ pc' = "idle" /\ request' = None]_vars

\* a picker opened for a typed query was cancelled
C5_Witness ==
  /\ event = "cancel"
  /\ InSearching
  /\ search_bar = <<"P", "a", "n">>
  /\ pc = "idle"

IsCandidate(link) ==
  /\ "ns" \in DOMAIN link /\ link["ns"] = 0
  /\ "title" \in DOMAIN link /\ link["title"] # <<>>

\* the titles of the links with ns = 0 and a non-empty title, in order, repeats kept
Candidates(page) ==
  LET kept == SelectSeq(IF "links" \in DOMAIN page THEN page["links"] ELSE <<>>, IsCandidate)
  IN  [i \in 1..Len(kept) |-> kept[i]["title"]]

\* C6: whenever the picker is opened its candidate list is non-empty and is the
\* subsequence of the page's links with ns = 0 and a non-empty title, in order and with
\* repeats kept; when that subsequence is empty the picker is not opened and the
\* DisambiguationEmpty message is set.
C6_PickerCandidates ==
  /\ picker # None => (GotPages /\ FirstPageId # "-1" /\ Flagged(FirstPage)
                         /\ picker[1].titles # <<>>)
  /\ (GotPages /\ FirstPageId # "-1" /\ Flagged(FirstPage)) =>
       IF Candidates(FirstPage) = <<>>
       THEN picker = None /\ article_label = DisambiguationEmptyMsg(search_bar)
       ELSE picker = Some([query |-> search_bar, titles |-> Candidates(FirstPage)])

\* the picker is open on ["Pan"] for a page that links "Pan" and a category
C6_Witness ==
  /\ picker # None
  /\ picker[1].titles = <<TitleA>>
  /\ GotPages
  /\ "links" \in DOMAIN FirstPage
  /\ FirstPage["links"] = << ("ns" :> 0) @@ ("title" :> TitleA),
                             ("ns" :> 14) @@ ("title" :> TitleCategory) >>

C10_EmptyQueryIgnored ==
  (event' = "search" /\ search_bar = <<>>) =>
    /\ UNCHANGED <<search_bar, article_label, title_label, hidden, pc, request, picker>>
    /\ pc' = "idle" /\ request' = None

C10_ReadingOnlyByArticle ==
  (hidden # ReadingConfig /\ hidden' = ReadingConfig) =>
    (pc = "requesting" /\ event' = "response" /\ outcome' = "Article")

\* C10: in every state after onCreate the widget visibility is one of two configurations
\* (search bar, search button and keyboard visible with article container and back
\* button hidden, or the reverse); the reverse one is entered only by a search that
\* produced an Article outcome; a search submitted with an empty query changes no widget
\* and issues no request.
C10_TwoVisibilityConfigurations ==
  /\ [](hidden \in {SearchConfig, ReadingConfig})
  /\ [][C10_ReadingOnlyByArticle /\ C10_EmptyQueryIgnored]_vars

\* back on the search screen after an article was read, an empty query was submitted
C10_Witness ==
  /\ event = "search"
  /\ outcome = "Ignored"
  /\ title_label # <<>>
  /\ hidden = SearchConfig
====
